---- MODULE Spec2Model ----
(***************************************************************************)
(* Model of the adaptive interval allocation engine of resource-sharing    *)
(* (allocation_calculator.py) together with the quota store it reads       *)
(* (check-quota.py: parse_usage_text, parse_reset_time, store_quota), the  *)
(* increment endpoint (resource_share_server.py) and the daily roll-up     *)
(* (aggregate_daily.py).                                                   *)
(*                                                                         *)
(* Conventions                                                             *)
(*  - Time is counted in whole minutes.                                    *)
(*  - Python floats are modelled by exact rationals <<n, d>> in lowest     *)
(*    terms with d > 0; the comparisons of the code are the comparisons of *)
(*    the rationals.                                                       *)
(*  - Python None / SQL NULL is <<>>, a present integer v is <<v>>.        *)
(*  - A reset-time column is a record with a tag: "none" (NULL), "iso" (a  *)
(*    string datetime.fromisoformat parses, with its instant t), "empty"   *)
(*    (the empty string) or "bad" (a string fromisoformat rejects).        *)
(*  - A call that raises returns [kind |-> "raised", ...].                 *)
(*  - The database schema is the one the queries name: every column a      *)
(*    SELECT or INSERT of the code mentions exists. An increment row's     *)
(*    timestamp column, which no INSERT names, holds the day of insertion. *)
(***************************************************************************)
EXTENDS Integers, Sequences, FiniteSets, TLC

VARIABLES
    now,                \* datetime.now(), in minutes
    quota_info,         \* table quota_info: timestamp -> row
    claude_identities,  \* table claude_identities: name -> row
    sessions,           \* table autonomous_time_sessions: set of rows
    inp,                \* the arguments of the call under way
    out,                \* what the last call returned
    resource_share_increments,  \* table resource_share_increments: rows in rowid order
    daily_resource_share        \* table daily_resource_share: <<name, date>> -> row

vars == <<now, quota_info, claude_identities, sessions, inp, out,
          resource_share_increments, daily_resource_share>>

----------------------------------------------------------------------------
(* Optional values *)

None == <<>>
Some(v) == <<v>>
IsNone(x) == x = <<>>
Val(x) == x[1]

----------------------------------------------------------------------------
(* Exact rationals standing for Python floats *)

RECURSIVE GCD(_, _)
GCD(a, b) == IF b = 0 THEN a ELSE GCD(b, a % b)

Abs(x) == IF x < 0 THEN -x ELSE x

\* n/d in lowest terms, d > 0
Rat(n, d) ==
    LET g == GCD(Abs(n), Abs(d))
        s == IF d < 0 THEN -1 ELSE 1
    IN  <<(s * n) \div g, (s * d) \div g>>

RInt(n) == <<n, 1>>
RLt(a, b) == a[1] * b[2] < b[1] * a[2]
RLe(a, b) == a[1] * b[2] <= b[1] * a[2]
REq(a, b) == a[1] * b[2] = b[1] * a[2]
RMul(a, b) == Rat(a[1] * b[1], a[2] * b[2])
RDiv(a, b) == Rat(a[1] * b[2], a[2] * b[1])
RMax(a, b) == IF RLt(a, b) THEN b ELSE a
RMin(a, b) == IF RLt(b, a) THEN b ELSE a
\* int(x) for x >= 0
RFloor(a) == a[1] \div a[2]

----------------------------------------------------------------------------
(* Program constants: allocation_calculator.py *)

MIN_INTERVAL == 900
MAX_INTERVAL == 7200
DEFAULT_INTERVAL == 1800

----------------------------------------------------------------------------
(* The universe the inputs are drawn from *)

\* the Claudes of the identity registry, and one name that is not registered
Claudes == {"Amber", "Delta", "Orange"}
Stranger == "Nobody"
AllNames == Claudes \cup {Stranger}

\* largest weighted cost of one usage entry
MaxUsage == 4

----------------------------------------------------------------------------
(* calculate_fairness_multiplier *)

\* recent_usage.get(claude_name, 0.0)
DictGet(d, k, default) == IF k \in DOMAIN d THEN d[k] ELSE default

\* all(usage == 0 for usage in recent_usage.values())
AllZero(recent_usage) == \A k \in DOMAIN recent_usage : recent_usage[k] = 0

\* [u for u in recent_usage.values() if u > 0], as the set of its elements
NonZeroUsage_unfiltered(recent_usage) ==
    {recent_usage[k] : k \in DOMAIN recent_usage}

NonZeroUsage(recent_usage) ==
    {recent_usage[k] : k \in {j \in DOMAIN recent_usage : recent_usage[j] > 0}}

\* min(non_zero_usage)
ListMin_max(S) == CHOOSE x \in S : \A y \in S : x >= y

ListMin(S) == CHOOSE x \in S : \A y \in S : x <= y

\* max(0.5, min(2.0, multiplier))
ClampFairness(multiplier) == RMax(<<1, 2>>, RMin(<<2, 1>>, multiplier))

\* The all-zero test made after the own-usage test.
calculate_fairness_multiplier_zero_first(claude_name, recent_usage) ==
    LET my_usage == DictGet(recent_usage, claude_name, 0)
        non_zero_usage == NonZeroUsage(recent_usage)
    IN  IF my_usage = 0 THEN [mult |-> <<1, 2>>, divided |-> FALSE]
        ELSE IF AllZero(recent_usage) THEN [mult |-> <<1, 1>>, divided |-> FALSE]
        ELSE IF non_zero_usage = {} THEN [mult |-> <<1, 1>>, divided |-> FALSE]
        ELSE [mult |-> ClampFairness(Rat(ListMin(non_zero_usage), my_usage)),
              divided |-> TRUE]

\* The own-usage test left out: the division is reached with my_usage = 0.
calculate_fairness_multiplier_no_zero_test(claude_name, recent_usage) ==
    LET my_usage == DictGet(recent_usage, claude_name, 0)
        non_zero_usage == NonZeroUsage(recent_usage)
    IN  IF AllZero(recent_usage) THEN [mult |-> <<1, 1>>, divided |-> FALSE]
        ELSE IF non_zero_usage = {} THEN [mult |-> <<1, 1>>, divided |-> FALSE]
        ELSE IF my_usage = 0 THEN [mult |-> <<1, 0>>, divided |-> TRUE]
        ELSE [mult |-> ClampFairness(Rat(ListMin(non_zero_usage), my_usage)),
              divided |-> TRUE]

\* The value returned, and whether line 139 (the only division) was executed.
calculate_fairness_multiplier(claude_name, recent_usage) ==
    LET my_usage == DictGet(recent_usage, claude_name, 0)
        non_zero_usage == NonZeroUsage(recent_usage)
    IN  IF AllZero(recent_usage) THEN [mult |-> <<1, 1>>, divided |-> FALSE]
        ELSE IF non_zero_usage = {} THEN [mult |-> <<1, 1>>, divided |-> FALSE]
        ELSE LET lowest_usage == ListMin(non_zero_usage)
             IN  IF my_usage = 0 THEN [mult |-> <<1, 2>>, divided |-> FALSE]
                 ELSE [mult |-> ClampFairness(Rat(lowest_usage, my_usage)),
                       divided |-> TRUE]

----------------------------------------------------------------------------
(* Specification of calculate_fairness_multiplier alone: the arguments are   *)
(* drawn from every usage mapping over a subset of the names, with costs in  *)
(* 0..MaxUsage, and every queried name.                                      *)

UsageMappings == UNION {[S -> 0..MaxUsage] : S \in SUBSET AllNames}

NoCall == [kind |-> "none"]

FairInit ==
    /\ resource_share_increments = <<>>
    /\ daily_resource_share = <<>>
    /\ now = 0
    /\ quota_info = <<>>
    /\ claude_identities = <<>>
    /\ sessions = {}
    /\ inp \in [claude_name : AllNames, recent_usage : UsageMappings]
    /\ out = NoCall

FairCall ==
    /\ out.kind = "none"
    /\ out' = [kind |-> "fairness",
               ret |-> calculate_fairness_multiplier(inp.claude_name, inp.recent_usage)]
    /\ UNCHANGED <<now, quota_info, claude_identities, sessions, inp, resource_share_increments, daily_resource_share>>

FairNext == FairCall

FairSpec == FairInit /\ [][FairNext]_vars

----------------------------------------------------------------------------
(* Claims about calculate_fairness_multiplier, checked under FairSpec *)

FairCalled == out.kind = "fairness"
OwnUsage == DictGet(inp.recent_usage, inp.claude_name, 0)
PositiveUsages == {u \in {inp.recent_usage[k] : k \in DOMAIN inp.recent_usage} : u > 0}
\* lowestUsage of the specification: the minimum strictly positive usage
LowestUsage == CHOOSE u \in PositiveUsages : \A v \in PositiveUsages : u <= v
ClampTo(lo, hi, r) == IF RLt(r, lo) THEN lo ELSE IF RLt(hi, r) THEN hi ELSE r

\* C3: an agent whose own usage is strictly greater than the minimum strictly
\* positive usage gets a fairness multiplier strictly greater than 1.0 and at
\* most 2.0 (it is slowed down).
C3_AboveFloorIsSlowed ==
    (FairCalled /\ PositiveUsages # {} /\ OwnUsage > LowestUsage)
        => (RLt(<<1, 1>>, out.ret.mult) /\ RLe(out.ret.mult, <<2, 1>>))

\* C4: with a positive own usage the multiplier is exactly
\* lowestUsage / ownUsage clamped to [0.5, 2.0], a number in [0.5, 2.0].
C4_RatioClamped ==
    (FairCalled /\ OwnUsage > 0)
        => /\ out.ret.mult[2] > 0
           /\ REq(out.ret.mult, ClampTo(<<1, 2>>, <<2, 1>>, Rat(LowestUsage, OwnUsage)))
           /\ RLe(<<1, 2>>, out.ret.mult)
           /\ RLe(out.ret.mult, <<2, 1>>)

\* C4 witness: the own usage is more than twice the floor, so the lower clamp acts.
C4_Witness ==
    /\ FairCalled
    /\ OwnUsage > 0
    /\ OwnUsage > 2 * LowestUsage
    /\ out.ret.mult = <<1, 2>>

\* C5: an agent whose usage equals the minimum strictly positive usage gets
\* exactly 1.0.
C5_FloorIsOne ==
    (FairCalled /\ PositiveUsages # {} /\ OwnUsage = LowestUsage)
        => out.ret.mult = <<1, 1>>

\* C5 witness: the queried agent is at the floor while another agent is above
\* it and a third has no usage.
C5_Witness ==
    /\ FairCalled
    /\ PositiveUsages # {}
    /\ OwnUsage = LowestUsage
    /\ \E k \in DOMAIN inp.recent_usage : inp.recent_usage[k] > OwnUsage
    /\ \E k \in DOMAIN inp.recent_usage : inp.recent_usage[k] = 0
    /\ out.ret.mult = <<1, 1>>

\* C6: when every usage of the mapping is zero (the empty mapping included) the
\* multiplier is 1.0 for any queried agent.
C6_AllZeroIsOne ==
    (FairCalled /\ \A k \in DOMAIN inp.recent_usage : inp.recent_usage[k] = 0)
        => out.ret.mult = <<1, 1>>

\* C6 witness: several agents, the queried one among them, all at zero.
C6_Witness ==
    /\ FairCalled
    /\ Cardinality(DOMAIN inp.recent_usage) >= 2
    /\ inp.claude_name \in DOMAIN inp.recent_usage
    /\ \A k \in DOMAIN inp.recent_usage : inp.recent_usage[k] = 0
    /\ out.ret.mult = <<1, 1>>

\* C7: an agent with zero usage, or with no entry, while another agent has
\* positive usage gets exactly 0.5, and no division is performed.
C7_ZeroAmongPositiveIsHalf ==
    (FairCalled /\ OwnUsage = 0 /\ PositiveUsages # {})
        => (out.ret.mult = <<1, 2>> /\ ~out.ret.divided)

\* C7 witness: the queried agent has no entry in the mapping and a peer has
\* positive usage.
C7_Witness ==
    /\ FairCalled
    /\ inp.claude_name \notin DOMAIN inp.recent_usage
    /\ PositiveUsages # {}
    /\ out.ret.mult = <<1, 2>>

----------------------------------------------------------------------------
(* calculate_window_multiplier *)

\* timedelta(hours=5) and timedelta(days=7), in minutes
SESSION_MINUTES == 300
WEEK_MINUTES == 10080

\* The window labels in use: the two the engine passes and the default of the
\* parameter. SessionLabels are those for which
\* 'session' in window_name.lower() or '5' in window_name.
WindowNames == {"5hr session", "weekly", "window"}
SessionLabels == {"5hr session"}

WindowDuration(window_name) ==
    IF window_name \in SessionLabels THEN SESSION_MINUTES ELSE WEEK_MINUTES

\* Reset-time column values
NoReset == [tag |-> "none"]
EmptyReset == [tag |-> "empty"]
BadReset == [tag |-> "bad"]
IsoReset(t) == [tag |-> "iso", t |-> t]

\* A returned (multiplier, reason); the reason keeps the parts of the f-string.
WindowResult(mult, window_name, text, used, elapsed) ==
    [kind |-> "ok", mult |-> mult,
     reason |-> [window |-> window_name, text |-> text,
                 used |-> used, elapsed |-> elapsed]]

\* percent_used / autonomous_quota with percent_used None
TypeErrorRaised == [kind |-> "raised", error |-> "TypeError"]

\* not reset_time_iso: None and the empty string are both falsy
ResetMissing_none_only(reset_time_iso) == reset_time_iso.tag = "none"

ResetMissing(reset_time_iso) == reset_time_iso.tag \in {"none", "empty"}

\* reset_time <= now
ResetHasPassed_strict(reset_time, clock) == reset_time < clock

ResetHasPassed(reset_time, clock) == reset_time <= clock

\* min(1.0, max(0.0, elapsed / total_duration))
TimeFraction_no_floor(elapsed, total_duration) ==
    RMin(<<1, 1>>, Rat(elapsed, total_duration))

TimeFraction(elapsed, total_duration) ==
    RMin(<<1, 1>>, RMax(<<0, 1>>, Rat(elapsed, total_duration)))

\* autonomous_used_fraction / time_fraction
\* (inverted, a zero used fraction stands for a ratio above every bucket edge)
PaceRatio_inverted(autonomous_used_fraction, time_fraction) ==
    IF autonomous_used_fraction[1] = 0 THEN <<1000, 1>>
    ELSE RDiv(time_fraction, autonomous_used_fraction)

PaceRatio(autonomous_used_fraction, time_fraction) ==
    RDiv(autonomous_used_fraction, time_fraction)

\* The if/elif chain of lines 205-219: the multiplier and the reason's tail.
PaceBucket_inclusive(pace_ratio) ==
    IF RLe(<<3, 2>>, pace_ratio) THEN [mult |-> <<3, 2>>, text |-> "slowing significantly"]
    ELSE IF RLe(<<11, 10>>, pace_ratio) THEN [mult |-> <<6, 5>>, text |-> "slight slowdown"]
    ELSE IF RLt(pace_ratio, <<7, 10>>) THEN [mult |-> <<7, 10>>, text |-> "can speed up"]
    ELSE IF RLt(pace_ratio, <<9, 10>>) THEN [mult |-> <<9, 10>>, text |-> "slight speedup"]
    ELSE [mult |-> <<1, 1>>, text |-> "on track"]

PaceBucket_swapped(pace_ratio) ==
    IF RLt(<<3, 2>>, pace_ratio) THEN [mult |-> <<3, 2>>, text |-> "slowing significantly"]
    ELSE IF RLt(<<11, 10>>, pace_ratio) THEN [mult |-> <<6, 5>>, text |-> "slight slowdown"]
    ELSE IF RLt(pace_ratio, <<7, 10>>) THEN [mult |-> <<9, 10>>, text |-> "slight speedup"]
    ELSE IF RLt(pace_ratio, <<9, 10>>) THEN [mult |-> <<7, 10>>, text |-> "can speed up"]
    ELSE [mult |-> <<1, 1>>, text |-> "on track"]

PaceBucket(pace_ratio) ==
    IF RLt(<<3, 2>>, pace_ratio) THEN [mult |-> <<3, 2>>, text |-> "slowing significantly"]
    ELSE IF RLt(<<11, 10>>, pace_ratio) THEN [mult |-> <<6, 5>>, text |-> "slight slowdown"]
    ELSE IF RLt(pace_ratio, <<7, 10>>) THEN [mult |-> <<7, 10>>, text |-> "can speed up"]
    ELSE IF RLt(pace_ratio, <<9, 10>>) THEN [mult |-> <<9, 10>>, text |-> "slight speedup"]
    ELSE [mult |-> <<1, 1>>, text |-> "on track"]

\* no autonomous quota counted as a quota fully used
AutonomousUsedFraction_full(percent_used, autonomous_quota) ==
    IF autonomous_quota > 0 THEN Rat(Val(percent_used), autonomous_quota) ELSE <<1, 1>>

\* percent_used / autonomous_quota if autonomous_quota > 0 else 0 (line 193)
AutonomousUsedFraction(percent_used, autonomous_quota) ==
    IF autonomous_quota > 0 THEN Rat(Val(percent_used), autonomous_quota) ELSE <<0, 1>>

\* clock is the value datetime.now() reads at line 170.
calculate_window_multiplier(percent_used, reset_time_iso, collaborative_pref, window_name, clock) ==
    IF ResetMissing(reset_time_iso)
    THEN WindowResult(<<1, 1>>, window_name, "No reset time available", None, None)
    ELSE IF reset_time_iso.tag # "iso"
    THEN WindowResult(<<1, 1>>, window_name, "Invalid reset time", None, None)
    ELSE LET reset_time == reset_time_iso.t IN
    IF ResetHasPassed(reset_time, clock)
    THEN WindowResult(<<1, 1>>, window_name, "Reset time has passed", None, None)
    ELSE LET window_duration == WindowDuration(window_name)
             window_start == reset_time - window_duration
             total_duration == reset_time - window_start
             elapsed == clock - window_start
             time_fraction == TimeFraction(elapsed, total_duration)
             autonomous_quota == 100 - collaborative_pref
         IN
    IF autonomous_quota > 0 /\ IsNone(percent_used) THEN TypeErrorRaised
    ELSE LET autonomous_used_fraction ==
                 AutonomousUsedFraction(percent_used, autonomous_quota)
         IN
    IF time_fraction[1] = 0
    THEN WindowResult(<<1, 1>>, window_name, "Just started", None, None)
    ELSE LET pace_ratio == PaceRatio(autonomous_used_fraction, time_fraction)
             bucket == PaceBucket(pace_ratio)
         IN  WindowResult(bucket.mult, window_name, bucket.text, percent_used,
                          Some(RFloor(RMul(time_fraction, <<100, 1>>))))

----------------------------------------------------------------------------
(* Specification of calculate_window_multiplier alone *)

\* reset instants, as minutes after the clock reading
ResetOffsets == {-60, 0, 1, 150, 290, 299, 300, 302, 400, 5040, 10080}

ResetInputs ==
    {NoReset, EmptyReset, BadReset} \cup {IsoReset(d) : d \in ResetOffsets}

PercentInputs == {None} \cup {Some(p) : p \in {0, 10, 35, 45, 55, 75, 99, 100}}

PrefInputs == {0, 30, 100, 120}

ResetAt(r, clock) == IF r.tag = "iso" THEN IsoReset(clock + r.t) ELSE r

WinInit ==
    /\ resource_share_increments = <<>>
    /\ daily_resource_share = <<>>
    /\ now = 0
    /\ quota_info = <<>>
    /\ claude_identities = <<>>
    /\ sessions = {}
    /\ \E p \in PercentInputs, r \in ResetInputs, c \in PrefInputs, w \in WindowNames :
          inp = [percent_used |-> p, reset_time_iso |-> ResetAt(r, now),
                 collaborative_pref |-> c, window_name |-> w]
    /\ out = NoCall

WinCall ==
    /\ out.kind = "none"
    /\ out' = [kind |-> "window",
               ret |-> calculate_window_multiplier(
                           inp.percent_used, inp.reset_time_iso,
                           inp.collaborative_pref, inp.window_name, now)]
    /\ UNCHANGED <<now, quota_info, claude_identities, sessions, inp, resource_share_increments, daily_resource_share>>

WinNext == WinCall

WinSpec == WinInit /\ [][WinNext]_vars

----------------------------------------------------------------------------
(* Claims about calculate_window_multiplier, checked under WinSpec *)

WinCalled == out.kind = "window"
\* nominal duration of the window the label selects: 5 hours or 7 days
NominalMinutes == IF inp.window_name = "5hr session" THEN 300 ELSE 10080
ResetIsFuture == inp.reset_time_iso.tag = "iso" /\ inp.reset_time_iso.t > now
\* minutes of the window elapsed at the clock reading
ElapsedMinutes == now - (inp.reset_time_iso.t - NominalMinutes)
\* timeFraction of the specification
SpecTimeFraction == ClampTo(<<0, 1>>, <<1, 1>>, Rat(ElapsedMinutes, NominalMinutes))
AutonomousQuota == 100 - inp.collaborative_pref
\* paceRatio of the specification, for a given percentUsed
SpecPaceRatio(p) == RDiv(Rat(p, AutonomousQuota), SpecTimeFraction)
\* the multiplier the specification's table gives a pace ratio
SpecBucket(r) ==
    IF RLt(<<3, 2>>, r) THEN <<3, 2>>
    ELSE IF RLt(<<11, 10>>, r) /\ RLe(r, <<3, 2>>) THEN <<6, 5>>
    ELSE IF RLe(<<9, 10>>, r) /\ RLe(r, <<11, 10>>) THEN <<1, 1>>
    ELSE IF RLe(<<7, 10>>, r) /\ RLt(r, <<9, 10>>) THEN <<9, 10>>
    ELSE <<7, 10>>
PaceDefined ==
    /\ ResetIsFuture
    /\ SpecTimeFraction[1] > 0
    /\ AutonomousQuota # 0
    /\ ~IsNone(inp.percent_used)

\* C8: with a future reset and timeFraction > 0 the multiplier is the bucket of
\* paceRatio = (percentUsed / autonomousQuota) / timeFraction: above 1.5 gives
\* 1.5; (1.1, 1.5] gives 1.2; [0.9, 1.1] gives 1.0; [0.7, 0.9) gives 0.9; below
\* 0.7 gives 0.7. A ratio of exactly 1.5 gives 1.2, and so does the weekly
\* window at 99% used, autonomousQuota 70, timeFraction 0.97.
C8_PaceBuckets ==
    (WinCalled /\ PaceDefined)
        => /\ out.ret.kind = "ok"
           /\ out.ret.mult = SpecBucket(SpecPaceRatio(Val(inp.percent_used)))
           /\ REq(SpecPaceRatio(Val(inp.percent_used)), <<3, 2>>)
                 => out.ret.mult = <<6, 5>>
           /\ ( /\ inp.window_name = "weekly"
                /\ inp.percent_used = Some(99)
                /\ inp.collaborative_pref = 30
                /\ inp.reset_time_iso.t = now + 302 )
                 => out.ret.mult = <<6, 5>>

\* C8 witness: the pace ratio is exactly 1.5 and the multiplier returned is 1.2.
C8_Witness ==
    /\ WinCalled
    /\ PaceDefined
    /\ REq(SpecPaceRatio(Val(inp.percent_used)), <<3, 2>>)
    /\ out.ret.mult = <<6, 5>>

\* the multiplier for percentUsed = p with the other arguments of the call
MultiplierAt(p) ==
    calculate_window_multiplier(Some(p), inp.reset_time_iso,
                                inp.collaborative_pref, inp.window_name, now)

\* the graph of percentUsed -> multiplier over 0..100, for the call's other
\* arguments; a call that raises has no multiplier
MultiplierGraph ==
    {<<p, MultiplierAt(p)>> : p \in 0..100}

NonDecreasing(graph) ==
    /\ \A x \in graph : x[2].kind = "ok"
    /\ \A x \in graph : \A y \in graph :
           (x[1] <= y[1]) => RLe(x[2].mult, y[2].mult)

\* C9: with the reset instant, the clock reading, the collaborative preference
\* and the window label fixed, a larger percentUsed in 0..100 never yields a
\* smaller multiplier.
C9_MonotoneInPercent == NonDecreasing(MultiplierGraph)

\* C9 witness: a call whose multiplier does change with percentUsed, from the
\* lowest bucket at 0% to the highest at 100%.
C9_Witness ==
    /\ WinCalled
    /\ PaceDefined
    /\ MultiplierAt(0).mult = <<7, 10>>
    /\ MultiplierAt(100).mult = <<3, 2>>
    /\ out.ret.mult = <<1, 1>>

\* The scenario of C10: preference 30, session window 10% used, reset 4h50m away.
C10_Scenario ==
    /\ WinCalled
    /\ inp.window_name = "5hr session"
    /\ inp.collaborative_pref = 30
    /\ inp.percent_used = Some(10)
    /\ inp.reset_time_iso.tag = "iso"
    /\ inp.reset_time_iso.t = now + 290

\* C10 as stated: in the scenario the session multiplier is 0.7, the "can speed
\* up" bucket.
C10_ScenarioSpeedsUp ==
    C10_Scenario => out.ret.mult = <<7, 10>>

\* C10 amended: in the scenario the pace ratio is (10/70)/(10/300), about 4.29,
\* and the session multiplier is 1.5, the "slowing significantly" bucket.
C10_ScenarioSlowsDown ==
    C10_Scenario
        => /\ out.ret.kind = "ok"
           /\ out.ret.mult = <<3, 2>>
           /\ out.ret.reason.text = "slowing significantly"

\* C10 witness: the scenario's call has returned, with 3% of the window elapsed.
C10_Witness ==
    /\ C10_Scenario
    /\ out.ret.reason.elapsed = Some(3)
    /\ out.ret.reason.used = Some(10)

\* C11: whenever the derived timeFraction is 0 (the reset instant is at least
\* one nominal window duration ahead of now) the multiplier is 1.0 with a
\* "Just started" reason, for every percentUsed in 0..100 and every
\* collaborative preference in 0..100.
C11_JustStarted ==
    (WinCalled /\ ResetIsFuture /\ inp.reset_time_iso.t - NominalMinutes >= now)
        => /\ ( ~IsNone(inp.percent_used) /\ inp.collaborative_pref \in 0..100 )
                 => /\ out.ret.kind = "ok"
                    /\ out.ret.mult = <<1, 1>>
                    /\ out.ret.reason.text = "Just started"
           /\ \A pc \in ((0..100) \X {0, 30, 100}) \cup ({0, 50, 100} \X (0..100)) :
                 LET r == calculate_window_multiplier(
                              Some(pc[1]), inp.reset_time_iso, pc[2],
                              inp.window_name, now)
                 IN  /\ r.kind = "ok"
                     /\ r.mult = <<1, 1>>
                     /\ r.reason.text = "Just started"

\* C11 witness: the reset is more than one window ahead (the raw fraction is
\* negative), the window is fully used, and the call returned "Just started".
C11_Witness ==
    /\ WinCalled
    /\ ResetIsFuture
    /\ inp.reset_time_iso.t - NominalMinutes > now
    /\ inp.percent_used = Some(100)
    /\ inp.collaborative_pref = 30
    /\ out.ret.mult = <<1, 1>>
    /\ out.ret.reason.text = "Just started"

\* C12: whenever the reset instant is at or before the clock reading the
\* multiplier is 1.0 with the "Reset time has passed" reason, whatever
\* percentUsed and the collaborative preference are.
C12_ResetPassed ==
    (WinCalled /\ inp.reset_time_iso.tag = "iso" /\ inp.reset_time_iso.t <= now)
        => /\ out.ret.kind = "ok"
           /\ out.ret.mult = <<1, 1>>
           /\ out.ret.reason.text = "Reset time has passed"

\* C12 witness: the reset instant is exactly the clock reading and the window
\* is 99% used.
C12_Witness ==
    /\ WinCalled
    /\ inp.reset_time_iso.tag = "iso"
    /\ inp.reset_time_iso.t = now
    /\ inp.percent_used = Some(99)
    /\ out.ret.mult = <<1, 1>>
    /\ out.ret.reason.text = "Reset time has passed"

\* C13: a missing reset instant (null or empty) gives 1.0 with "No reset time
\* available", an unparsable one gives 1.0 with "Invalid reset time"; neither
\* raises, and the result depends on neither percentUsed nor the preference.
C13_MissingOrInvalidReset ==
    (WinCalled /\ inp.reset_time_iso.tag # "iso")
        => /\ out.ret.kind = "ok"
           /\ out.ret.mult = <<1, 1>>
           /\ inp.reset_time_iso.tag \in {"none", "empty"}
                 => out.ret.reason.text = "No reset time available"
           /\ inp.reset_time_iso.tag = "bad"
                 => out.ret.reason.text = "Invalid reset time"
           /\ \A p \in PercentInputs : \A c \in PrefInputs :
                 calculate_window_multiplier(
                     p, inp.reset_time_iso, c, inp.window_name, now) = out.ret

\* C13 witness: the reset column holds the empty string and percentUsed is
\* missing too.
C13_Witness ==
    /\ WinCalled
    /\ inp.reset_time_iso.tag = "empty"
    /\ IsNone(inp.percent_used)
    /\ out.ret.kind = "ok"
    /\ out.ret.reason.text = "No reset time available"

\* C22: when the collaborative preference is 100 or more (autonomousQuota
\* <= 0), the reset instant is in the future and timeFraction > 0, the call
\* returns without raising and its multiplier is 0.7 ("can speed up"), for
\* the percent passed and for every percentUsed in 0..100.
C22_NoQuotaSpeedsUp ==
    (WinCalled /\ inp.collaborative_pref >= 100 /\ ResetIsFuture
        /\ RLt(<<0, 1>>, SpecTimeFraction))
        => /\ out.ret.kind = "ok"
           /\ out.ret.mult = <<7, 10>>
           /\ \A p \in 0..100 :
                 LET r == calculate_window_multiplier(
                              Some(p), inp.reset_time_iso, inp.collaborative_pref,
                              inp.window_name, now)
                 IN  r.kind = "ok" /\ r.mult = <<7, 10>>

\* C22 witness: preference 120, 100 percent used, half of the session window
\* elapsed, and the call returned 0.7.
C22_Witness ==
    /\ WinCalled
    /\ inp.collaborative_pref = 120
    /\ inp.percent_used = Some(100)
    /\ inp.window_name = "5hr session"
    /\ inp.reset_time_iso = IsoReset(now + 150)
    /\ out.ret.kind = "ok"
    /\ out.ret.mult = <<7, 10>>

----------------------------------------------------------------------------
(* The stores the engine reads: get_latest_quota, get_claude_info,          *)
(* get_recent_weighted_usage; and store_quota of check-quota.py.            *)

SetMax(S) == CHOOSE x \in S : \A y \in S : x >= y

\* the oldest row instead of the newest (ORDER BY timestamp ASC)
get_latest_quota_oldest(table) ==
    IF DOMAIN table = {} THEN None
    ELSE LET ts == CHOOSE x \in DOMAIN table : \A y \in DOMAIN table : x <= y
         IN  Some([session_5hour |-> table[ts].session_5hour,
                   week_all |-> table[ts].week_all,
                   week_sonnet |-> table[ts].week_sonnet,
                   session_5hour_reset |-> table[ts].session_5hour_reset,
                   week_reset |-> table[ts].week_reset,
                   timestamp |-> ts])

\* SELECT ... FROM quota_info ORDER BY timestamp DESC LIMIT 1
get_latest_quota(table) ==
    IF DOMAIN table = {} THEN None
    ELSE LET ts == SetMax(DOMAIN table)
         IN  Some([session_5hour |-> table[ts].session_5hour,
                   week_all |-> table[ts].week_all,
                   week_sonnet |-> table[ts].week_sonnet,
                   session_5hour_reset |-> table[ts].session_5hour_reset,
                   week_reset |-> table[ts].week_reset,
                   timestamp |-> ts])

\* x or default, for an integer column: NULL and 0 are both falsy
OrDefault(x, default) == IF IsNone(x) \/ Val(x) = 0 THEN default ELSE Val(x)

\* SELECT name, model, cost_multiplier, collaborative_pref
\* FROM claude_identities WHERE name = ?
get_claude_info(table, claude_name) ==
    IF claude_name \notin DOMAIN table THEN None
    ELSE Some([name |-> claude_name,
               model |-> table[claude_name].model,
               cost_multiplier |-> OrDefault(table[claude_name].cost_multiplier, 3),
               collaborative_pref |-> OrDefault(table[claude_name].collaborative_pref, 30)])

RECURSIVE SumWeighted(_)
SumWeighted(rows) ==
    IF rows = {} THEN 0
    ELSE LET r == CHOOSE x \in rows : TRUE
         IN  r.weighted_cost + SumWeighted(rows \ {r})

\* timedelta(hours=hours), in minutes
HoursToMinutes(hours) == hours * 60

\* SELECT claude_name, SUM(weighted_cost) FROM autonomous_time_sessions
\* WHERE start_time >= cutoff GROUP BY claude_name; then every name of
\* claude_identities that has no group is added with 0.
get_recent_weighted_usage_no_fill(rows, identities, hours, clock) ==
    LET cutoff == clock - HoursToMinutes(hours)
        recent == {r \in rows : r.start_time >= cutoff}
        grouped == {r.claude_name : r \in recent}
    IN  [n \in grouped |-> SumWeighted({r \in recent : r.claude_name = n})]

get_recent_weighted_usage(rows, identities, hours, clock) ==
    LET cutoff == clock - HoursToMinutes(hours)
        recent == {r \in rows : r.start_time >= cutoff}
        grouped == {r.claude_name : r \in recent}
    IN  [n \in grouped \cup DOMAIN identities |->
            IF n \in grouped
            THEN SumWeighted({r \in recent : r.claude_name = n})
            ELSE 0]

\* data.get(key)
DataGet(data, key) == IF key \in DOMAIN data THEN data[key] ELSE None
DataGetReset(data, key) == IF key \in DOMAIN data THEN data[key] ELSE NoReset

\* INSERT OR REPLACE INTO quota_info ... with timestamp = datetime.now()
store_quota(table, data, clock) ==
    [ts \in DOMAIN table \cup {clock} |->
        IF ts = clock
        THEN [session_5hour |-> DataGet(data, "session_5hour"),
              week_all |-> DataGet(data, "week_all"),
              week_sonnet |-> DataGet(data, "week_sonnet"),
              session_5hour_reset |-> DataGetReset(data, "session_5hour_reset"),
              week_reset |-> DataGetReset(data, "week_reset")]
        ELSE table[ts]]

----------------------------------------------------------------------------
(* calculate_recommended_interval *)

\* quota['week_all'] > 80 ... (lines 295-303)
QuotaStatus_inclusive(week_all) ==
    IF week_all >= 80 THEN "critical"
    ELSE IF week_all >= 60 THEN "high"
    ELSE IF week_all >= 40 THEN "medium"
    ELSE "good"

QuotaStatus_unknown_default(week_all) ==
    IF week_all > 80 THEN "critical"
    ELSE IF week_all > 60 THEN "high"
    ELSE IF week_all > 40 THEN "medium"
    ELSE "unknown"

QuotaStatus(week_all) ==
    IF week_all > 80 THEN "critical"
    ELSE IF week_all > 60 THEN "high"
    ELSE IF week_all > 40 THEN "medium"
    ELSE "good"

\* int(max(MIN_INTERVAL, min(MAX_INTERVAL, new_interval)))
ClampInterval_round(new_interval) ==
    LET c == RMax(RInt(MIN_INTERVAL), RMin(RInt(MAX_INTERVAL), new_interval))
    IN  (2 * c[1] + c[2]) \div (2 * c[2])

ClampInterval(new_interval) ==
    RFloor(RMax(RInt(MIN_INTERVAL), RMin(RInt(MAX_INTERVAL), new_interval)))

\* The early returns of lines 242-247 and 252-257.
EarlyReturn_clamped(current_interval, reason) ==
    [kind |-> "ok",
     recommended_interval |-> ClampInterval(RInt(current_interval)),
     reasons |-> <<reason>>,
     quota_status |-> "unknown",
     multipliers |-> <<>>]

EarlyReturn(current_interval, reason) ==
    [kind |-> "ok",
     recommended_interval |-> current_interval,
     reasons |-> <<reason>>,
     quota_status |-> "unknown",
     multipliers |-> <<>>]

\* current_interval is None when the caller passes none.
DefaultInterval(current_interval) ==
    IF IsNone(current_interval) THEN DEFAULT_INTERVAL ELSE Val(current_interval)

calculate_recommended_interval(claude_name, current_interval_arg, clock) ==
    LET current_interval == DefaultInterval(current_interval_arg)
        quota_opt == get_latest_quota(quota_info)
    IN
    IF IsNone(quota_opt)
    THEN EarlyReturn(current_interval, [text |-> "No quota data available"])
    ELSE LET quota == Val(quota_opt)
             claude_info_opt == get_claude_info(claude_identities, claude_name)
         IN
    IF IsNone(claude_info_opt)
    THEN EarlyReturn(current_interval,
                     [text |-> "not found in database", name |-> claude_name])
    ELSE LET collaborative_pref == Val(claude_info_opt).collaborative_pref
             recent_usage ==
                 get_recent_weighted_usage(sessions, claude_identities, 24, clock)
             fairness_mult ==
                 calculate_fairness_multiplier(claude_name, recent_usage).mult
             session == calculate_window_multiplier(
                            quota.session_5hour, quota.session_5hour_reset,
                            collaborative_pref, "5hr session", clock)
         IN
    IF session.kind = "raised" THEN session
    ELSE LET week == calculate_window_multiplier(
                         quota.week_all, quota.week_reset,
                         collaborative_pref, "weekly", clock)
         IN
    IF week.kind = "raised" THEN week
    ELSE LET combined == RMul(RMul(fairness_mult, session.mult), week.mult)
             new_interval == RMul(RInt(current_interval), combined)
             recommended == ClampInterval(new_interval)
         IN
    IF IsNone(quota.week_all) THEN TypeErrorRaised
    ELSE [kind |-> "ok",
          recommended_interval |-> recommended,
          reasons |-> <<[text |-> "Fairness", mult |-> fairness_mult],
                        [reason |-> session.reason, mult |-> session.mult],
                        [reason |-> week.reason, mult |-> week.mult],
                        [text |-> "Combined", from |-> current_interval,
                         to |-> recommended]>>,
          quota_status |-> QuotaStatus(Val(quota.week_all)),
          multipliers |-> [fairness |-> fairness_mult,
                           session_5hour |-> session.mult,
                           weekly |-> week.mult,
                           combined |-> combined],
          collaborative_pref |-> collaborative_pref,
          current_interval |-> current_interval,
          recent_usage |-> recent_usage]

----------------------------------------------------------------------------
(* Specification of the engine over its stores: quota snapshots are stored  *)
(* as the clock advances, and calculate_recommended_interval is called for  *)
(* registered and unregistered names with and without a current interval.   *)

\* the clock advances MaxTicks times, TickMinutes at a time
MaxTicks == 1
TickMinutes == 150

\* What parse_usage_text hands to store_quota at clock reading t: a dict in
\* which any key may be missing.
QuotaData(t) ==
    { [session_5hour |-> Some(10), week_all |-> Some(50), week_sonnet |-> Some(57),
       session_5hour_reset |-> IsoReset(t + 290), week_reset |-> IsoReset(t + 5040)],
      [session_5hour |-> Some(90), week_all |-> Some(99), week_sonnet |-> Some(57),
       session_5hour_reset |-> IsoReset(t + 150), week_reset |-> IsoReset(t + 302)],
      [week_all |-> Some(80), week_reset |-> IsoReset(t + 5040)],
      [session_5hour |-> Some(10), session_5hour_reset |-> IsoReset(t + 290)],
      [session_5hour |-> Some(35), week_all |-> Some(40)] }

\* collaborative_pref column values of the registry
PrefColumn == {None, Some(0), Some(100)}

\* rows of autonomous_time_sessions: the last one is older than 24 hours
SessionTables ==
    { {},
      {[id |-> 1, claude_name |-> "Amber", start_time |-> -10, weighted_cost |-> 1],
       [id |-> 2, claude_name |-> "Delta", start_time |-> -20, weighted_cost |-> MaxUsage]},
      {[id |-> 1, claude_name |-> "Amber", start_time |-> -10, weighted_cost |-> 2],
       [id |-> 2, claude_name |-> "Amber", start_time |-> -30, weighted_cost |-> 1],
       [id |-> 3, claude_name |-> "Delta", start_time |-> -20, weighted_cost |-> 2],
       [id |-> 4, claude_name |-> "Orange", start_time |-> -5000, weighted_cost |-> 1]} }

\* current_interval arguments: absent, below MIN_INTERVAL, inside, above MAX_INTERVAL
IntervalArgs == {None, Some(500), Some(1301), Some(9000)}

Init ==
    /\ resource_share_increments = <<>>
    /\ daily_resource_share = <<>>
    /\ now = 0
    /\ quota_info = <<>>
    /\ \E p \in PrefColumn :
          claude_identities =
              [c \in Claudes |->
                  [model |-> "sonnet", cost_multiplier |-> Some(3),
                   collaborative_pref |-> IF c = "Amber" THEN p ELSE Some(50)]]
    /\ sessions \in SessionTables
    /\ inp = NoCall
    /\ out = NoCall

\* the wall clock advances; the caller has consumed the last return value
Tick ==
    /\ now < MaxTicks * TickMinutes
    /\ now' = now + TickMinutes
    /\ inp' = NoCall
    /\ out' = NoCall
    /\ UNCHANGED <<quota_info, claude_identities, sessions, resource_share_increments, daily_resource_share>>

\* check-quota.py main: a parsed, non-empty usage dict is stored
StoreQuota ==
    /\ \E data \in QuotaData(now) :
          /\ quota_info' = store_quota(quota_info, data, now)
          /\ inp' = [kind |-> "store", data |-> data]
    /\ out' = NoCall
    /\ UNCHANGED <<now, claude_identities, sessions, resource_share_increments, daily_resource_share>>

\* a caller asks for a recommendation
Recommend ==
    /\ \E n \in AllNames, c \in IntervalArgs :
          /\ inp' = [kind |-> "recommend", claude_name |-> n, current_interval |-> c]
          /\ out' = [kind |-> "recommend",
                     ret |-> calculate_recommended_interval(n, c, now)]
    /\ UNCHANGED <<now, quota_info, claude_identities, sessions, resource_share_increments, daily_resource_share>>

\* a caller reads the usage history of the last 24 hours
RecentUsage ==
    /\ inp' = [kind |-> "usage", hours |-> 24]
    /\ out' = [kind |-> "usage",
               ret |-> get_recent_weighted_usage(sessions, claude_identities, 24, now)]
    /\ UNCHANGED <<now, quota_info, claude_identities, sessions, resource_share_increments, daily_resource_share>>

Next == Tick \/ StoreQuota \/ Recommend \/ RecentUsage

Spec == Init /\ [][Next]_vars

----------------------------------------------------------------------------
(* Claims about calculate_recommended_interval, checked under Spec *)

Recommended == out.kind = "recommend"
NoSnapshot == DOMAIN quota_info = {}
Unregistered == inp.claude_name \notin DOMAIN claude_identities
\* the caller-supplied current interval, 1800 when none is supplied
SuppliedInterval ==
    IF IsNone(inp.current_interval) THEN 1800 ELSE Val(inp.current_interval)

\* C1: for every call - any agent name, any caller-supplied current interval,
\* with or without a stored quota snapshot - the returned recommended_interval
\* lies in [MIN_INTERVAL, MAX_INTERVAL] = [900, 7200].
C1_IntervalWithinBounds ==
    (Recommended /\ out.ret.kind = "ok")
        => /\ out.ret.recommended_interval >= 900
           /\ out.ret.recommended_interval <= 7200

\* C2: with no quota snapshot, or with an agent name that is not in the
\* identity registry, the call does not raise and returns the caller-supplied
\* current interval (1800 when none is supplied), quota_status "unknown" and
\* one explanatory reason.
C2_MissingDataReturnsCurrent ==
    (Recommended /\ (NoSnapshot \/ Unregistered))
        => /\ out.ret.kind = "ok"
           /\ out.ret.recommended_interval = SuppliedInterval
           /\ out.ret.quota_status = "unknown"
           /\ Len(out.ret.reasons) = 1
           /\ NoSnapshot => out.ret.reasons[1].text = "No quota data available"
           /\ ~NoSnapshot =>
                 /\ out.ret.reasons[1].text = "not found in database"
                 /\ out.ret.reasons[1].name = inp.claude_name

\* C2 witness: a snapshot is stored, the name is not registered and the
\* caller's interval of 9000 s comes back unchanged.
C2_Witness ==
    /\ Recommended
    /\ ~NoSnapshot
    /\ Unregistered
    /\ inp.current_interval = Some(9000)
    /\ out.ret.kind = "ok"
    /\ out.ret.recommended_interval = 9000
    /\ out.ret.quota_status = "unknown"

\* the call ran past both early returns: a snapshot exists and the name is registered
Registered == inp.claude_name \in DOMAIN claude_identities
FullPath == Recommended /\ ~NoSnapshot /\ Registered
\* the most recent snapshot row
LatestRow == quota_info[SetMax(DOMAIN quota_info)]
\* fairness x sessionPace x weekPace of the returned multipliers
ReturnedProduct ==
    RMul(RMul(out.ret.multipliers.fairness, out.ret.multipliers.session_5hour),
         out.ret.multipliers.weekly)
\* clamp(currentInterval x fairness x sessionPace x weekPace, 900, 7200)
ClampedRaw ==
    ClampTo(<<900, 1>>, <<7200, 1>>, RMul(RInt(SuppliedInterval), ReturnedProduct))
\* round to the nearest integer
RoundNearest(r) == (2 * r[1] + r[2]) \div (2 * r[2])
\* the three multipliers are those of the two component functions
MultipliersAreComponents ==
    /\ out.ret.multipliers.fairness =
           calculate_fairness_multiplier(
               inp.claude_name,
               get_recent_weighted_usage(sessions, claude_identities, 24, now)).mult
    /\ out.ret.multipliers.session_5hour =
           calculate_window_multiplier(
               LatestRow.session_5hour, LatestRow.session_5hour_reset,
               out.ret.collaborative_pref, "5hr session", now).mult
    /\ out.ret.multipliers.weekly =
           calculate_window_multiplier(
               LatestRow.week_all, LatestRow.week_reset,
               out.ret.collaborative_pref, "weekly", now).mult

\* C14 as stated: for a registered agent with a snapshot, recommended_interval
\* is round(clamp(currentInterval x fairness x sessionPace x weekPace, 900,
\* 7200)), the clamped product rounded to the nearest integer, and
\* multipliers.combined is fairness x sessionPace x weekPace.
C14_RoundedClampedProduct ==
    (FullPath /\ out.ret.kind = "ok")
        => /\ out.ret.recommended_interval = RoundNearest(ClampedRaw)
           /\ REq(out.ret.multipliers.combined, ReturnedProduct)

\* C14 amended: recommended_interval is the clamped product truncated to an
\* integer (int(), not round()), and multipliers.combined is
\* fairness x sessionPace x weekPace.
C14_TruncatedClampedProduct ==
    (FullPath /\ out.ret.kind = "ok")
        => /\ MultipliersAreComponents
           /\ out.ret.recommended_interval = ClampedRaw[1] \div ClampedRaw[2]
           /\ REq(out.ret.multipliers.combined, ReturnedProduct)

\* C14 witness: the clamped product has a fractional part of one half or more,
\* so truncating and rounding differ.
C14_Witness ==
    /\ FullPath
    /\ out.ret.kind = "ok"
    /\ RoundNearest(ClampedRaw) = out.ret.recommended_interval + 1
    /\ RLt(<<900, 1>>, ClampedRaw)
    /\ RLt(ClampedRaw, <<7200, 1>>)

\* the status the specification gives a raw weekly percent used
SpecStatus(w) ==
    IF w > 80 THEN "critical"
    ELSE IF 60 < w /\ w <= 80 THEN "high"
    ELSE IF 40 < w /\ w <= 60 THEN "medium"
    ELSE "good"

\* C15: for a registered agent with a snapshot, quota_status is a function of
\* the snapshot's raw weekly percent used w alone: w > 80 critical,
\* 60 < w <= 80 high, 40 < w <= 60 medium, w <= 40 good.
C15_StatusFromWeeklyPercent ==
    (FullPath /\ out.ret.kind = "ok")
        => out.ret.quota_status = SpecStatus(Val(LatestRow.week_all))

\* C15 witness: w is exactly 80, the status is "high", and the weekly
\* multiplier is not neutral.
C15_Witness ==
    /\ FullPath
    /\ out.ret.kind = "ok"
    /\ LatestRow.week_all = Some(80)
    /\ out.ret.quota_status = "high"
    /\ out.ret.multipliers.weekly # <<1, 1>>

KnownStatuses == {"good", "medium", "high", "critical"}

\* C16 as stated: quota_status is "unknown" only when no snapshot exists at
\* all; whenever a snapshot exists it is one of good, medium, high, critical.
C16_UnknownOnlyWithoutSnapshot ==
    (Recommended /\ out.ret.kind = "ok" /\ ~NoSnapshot)
        => out.ret.quota_status \in KnownStatuses

\* C16 amended: quota_status is "unknown" only when no snapshot exists or the
\* agent name is not registered; whenever a snapshot exists and the agent is
\* registered, a returned quota_status is one of good, medium, high, critical.
C16_UnknownOnlyOnMissingData ==
    (Recommended /\ out.ret.kind = "ok")
        => /\ (out.ret.quota_status = "unknown") <=> (NoSnapshot \/ Unregistered)
           /\ (~NoSnapshot /\ Registered) => out.ret.quota_status \in KnownStatuses

\* C16 witness: a registered agent, a snapshot with 40% of the week used, and
\* the status "good".
C16_Witness ==
    /\ FullPath
    /\ out.ret.kind = "ok"
    /\ LatestRow.week_all = Some(40)
    /\ out.ret.quota_status = "good"

\* a window whose percent or reset column is NULL in the latest snapshot
SessionFieldMissing ==
    IsNone(LatestRow.session_5hour) \/ LatestRow.session_5hour_reset.tag = "none"
WeekFieldMissing ==
    IsNone(LatestRow.week_all) \/ LatestRow.week_reset.tag = "none"

\* C18: for a registered agent and any snapshot row store_quota can write (any
\* of session_5hour, week_all, session_5hour_reset, week_reset may be NULL) the
\* call does not raise, and a window with a missing field contributes the
\* neutral multiplier 1.0.
C18_NullFieldsDoNotRaise ==
    FullPath
        => /\ out.ret.kind = "ok"
           /\ SessionFieldMissing => out.ret.multipliers.session_5hour = <<1, 1>>
           /\ WeekFieldMissing => out.ret.multipliers.weekly = <<1, 1>>

\* the collaborative_pref column of the queried agent
StoredPref == claude_identities[inp.claude_name].collaborative_pref

\* C19: for a registered agent whose stored collaborative preference is p in
\* 0..100, both window multipliers are computed with autonomousQuota = 100 - p;
\* a stored preference of 0 gives autonomousQuota = 100.
C19_QuotaFromStoredPreference ==
    (FullPath /\ out.ret.kind = "ok" /\ ~IsNone(StoredPref))
        => /\ 100 - out.ret.collaborative_pref = 100 - Val(StoredPref)
           /\ out.ret.multipliers.session_5hour =
                  calculate_window_multiplier(
                      LatestRow.session_5hour, LatestRow.session_5hour_reset,
                      Val(StoredPref), "5hr session", now).mult
           /\ out.ret.multipliers.weekly =
                  calculate_window_multiplier(
                      LatestRow.week_all, LatestRow.week_reset,
                      Val(StoredPref), "weekly", now).mult

\* the rows of one agent inside the trailing 24 hours
RecentRowsOf(c) ==
    {r \in sessions : r.claude_name = c /\ r.start_time >= now - 24 * 60}

\* C20: the mapping get_recent_weighted_usage returns has an entry for every
\* agent of the identity registry, and an agent with no usage rows inside the
\* trailing window maps to 0.
C20_EveryRegisteredAgentHasEntry ==
    /\ (out.kind = "usage")
          => \A c \in DOMAIN claude_identities :
                /\ c \in DOMAIN out.ret
                /\ RecentRowsOf(c) = {} => out.ret[c] = 0
    /\ (FullPath /\ out.ret.kind = "ok")
          => \A c \in DOMAIN claude_identities :
                /\ c \in DOMAIN out.ret.recent_usage
                /\ RecentRowsOf(c) = {} => out.ret.recent_usage[c] = 0

\* C20 witness: one agent's only rows are older than 24 hours, another has
\* recent usage, and the first maps to 0.
C20_Witness ==
    /\ out.kind = "usage"
    /\ \E c \in DOMAIN claude_identities :
          /\ \E r \in sessions : r.claude_name = c
          /\ RecentRowsOf(c) = {}
          /\ out.ret[c] = 0
    /\ \E c \in DOMAIN claude_identities : out.ret[c] > 0

\* the snapshot row a dict handed to store_quota becomes, NULL for a missing key
RowOfData(data) ==
    [session_5hour |-> IF "session_5hour" \in DOMAIN data THEN data.session_5hour ELSE None,
     week_all |-> IF "week_all" \in DOMAIN data THEN data.week_all ELSE None,
     week_sonnet |-> IF "week_sonnet" \in DOMAIN data THEN data.week_sonnet ELSE None,
     session_5hour_reset |->
         IF "session_5hour_reset" \in DOMAIN data THEN data.session_5hour_reset ELSE NoReset,
     week_reset |-> IF "week_reset" \in DOMAIN data THEN data.week_reset ELSE NoReset]

\* the snapshot fields of what get_latest_quota returns
LatestFields ==
    LET q == Val(get_latest_quota(quota_info))
    IN  [session_5hour |-> q.session_5hour, week_all |-> q.week_all,
         week_sonnet |-> q.week_sonnet,
         session_5hour_reset |-> q.session_5hour_reset, week_reset |-> q.week_reset]

\* C21: after store_quota calls at non-decreasing clock readings,
\* get_latest_quota returns exactly the fields of the snapshot stored last, and
\* calculate_recommended_interval computes both window multipliers and the
\* quota status from the row with the greatest timestamp alone.
C21_LatestSnapshotOnly ==
    /\ (inp.kind = "store")
          => /\ ~IsNone(get_latest_quota(quota_info))
             /\ LatestFields = RowOfData(inp.data)
             /\ Val(get_latest_quota(quota_info)).timestamp = now
    /\ (FullPath /\ out.ret.kind = "ok")
          => /\ out.ret.multipliers.session_5hour =
                    calculate_window_multiplier(
                        LatestRow.session_5hour, LatestRow.session_5hour_reset,
                        out.ret.collaborative_pref, "5hr session", now).mult
             /\ out.ret.multipliers.weekly =
                    calculate_window_multiplier(
                        LatestRow.week_all, LatestRow.week_reset,
                        out.ret.collaborative_pref, "weekly", now).mult
             /\ out.ret.quota_status = SpecStatus(Val(LatestRow.week_all))

\* C21 witness: two snapshots are stored, the older one with a different
\* session percent and weekly percent, and a recommendation was returned.
C21_Witness ==
    /\ FullPath
    /\ out.ret.kind = "ok"
    /\ \E t \in DOMAIN quota_info :
          /\ t < SetMax(DOMAIN quota_info)
          /\ quota_info[t].session_5hour # LatestRow.session_5hour
          /\ quota_info[t].week_all # LatestRow.week_all
          /\ ~IsNone(quota_info[t].week_all)
          /\ SpecStatus(Val(quota_info[t].week_all)) # out.ret.quota_status

----------------------------------------------------------------------------
(* check-quota.py: parse_reset_time, parse_usage_text and main.             *)
(*                                                                          *)
(* A line of the usage text is a record: a label line with its text, a      *)
(* progress line with the N of "N% used", a "Resets ..." line with the      *)
(* fields its regular expression captures, or one of the noise lines.       *)
(* Minute 0 of the clock is January 1st 00:00 of a year of 365 days.        *)

LabelLine(text) == [kind |-> "label", text |-> text]
BarLine(percent) == [kind |-> "bar", percent |-> percent]
ResetsTimeLine(hour, minute, ampm) ==
    [kind |-> "resets", form |-> "time", hour |-> hour, minute |-> minute, ampm |-> ampm]
ResetsDateLine(month, day, hour, minute, ampm) ==
    [kind |-> "resets", form |-> "date", month |-> month, day |-> day,
     hour |-> hour, minute |-> minute, ampm |-> ampm]
NoiseLine == [kind |-> "noise"]

\* days of the year before the first of each month
DaysBeforeMonth == <<0, 31, 59, 90, 120, 151, 181, 212, 243, 273, 304, 334>>

\* now.year (as years after the first), now.month, and midnight of now's day
ClockYear(clock) == clock \div (365 * 24 * 60)
ClockDayOfYear(clock) == (clock % (365 * 24 * 60)) \div (24 * 60)
ClockMonth(clock) ==
    CHOOSE m \in 1..12 :
        /\ DaysBeforeMonth[m] <= ClockDayOfYear(clock)
        /\ m = 12 \/ ClockDayOfYear(clock) < DaysBeforeMonth[m + 1]
ClockMidnight(clock) == (clock \div (24 * 60)) * (24 * 60)

\* datetime(year, month, day, hour, minute)
DateTime(year, month, day, hour, minute) ==
    ((year * 365 + DaysBeforeMonth[month] + day - 1) * 24 + hour) * 60 + minute

\* the 12-hour clock conversion of lines 56-59 and 72-75
Hour24(hour, ampm) ==
    IF ampm = "pm" /\ hour # 12 THEN hour + 12
    ELSE IF ampm = "am" /\ hour = 12 THEN 0
    ELSE hour

\* parse_reset_time: None, or the datetime as minutes
parse_reset_time(reset_line, clock) ==
    IF reset_line.kind # "resets" THEN None
    ELSE IF reset_line.form = "time"
    THEN Some(ClockMidnight(clock)
              + Hour24(reset_line.hour, reset_line.ampm) * 60 + reset_line.minute)
    ELSE IF reset_line.form = "date"
    THEN LET year == IF reset_line.month < ClockMonth(clock)
                     THEN ClockYear(clock) + 1 ELSE ClockYear(clock)
         IN  Some(DateTime(year, reset_line.month, reset_line.day,
                           Hour24(reset_line.hour, reset_line.ampm), reset_line.minute))
    ELSE None

\* line 96: one of the skip phrases is in the line
IsNoise(line) == line.kind = "noise"
\* line 101: no progress bar character and no "% used" in the line
LooksLikeLabel(line) == line.kind # "bar"
\* lines 105-110
LabelWindow(line, current_window) ==
    IF line.kind # "label" THEN current_window
    ELSE IF line.text = "Current session" THEN Some("session_5hour")
    ELSE IF line.text = "Current week (all models)" THEN Some("week_all")
    ELSE IF line.text = "Current week (Sonnet only)" THEN Some("week_sonnet")
    ELSE current_window

\* results[key] = value
DictSet(d, key, value) ==
    [k \in DOMAIN d \cup {key} |-> IF k = key THEN value ELSE d[k]]

\* lines 116-132, for one line of the look-ahead
LookAtLine(next_line, current_window, results, clock) ==
    LET with_percent ==
            IF next_line.kind = "bar" /\ ~IsNone(current_window)
            THEN DictSet(results, Val(current_window), Some(next_line.percent))
            ELSE results
        reset_time ==
            IF next_line.kind = "resets" /\ ~IsNone(current_window)
            THEN parse_reset_time(next_line, clock) ELSE None
    IN  IF IsNone(reset_time) THEN with_percent
        ELSE IF Val(current_window) = "session_5hour"
        THEN DictSet(with_percent, "session_5hour_reset", IsoReset(Val(reset_time)))
        ELSE DictSet(with_percent, "week_reset", IsoReset(Val(reset_time)))

\* for j in range(i + 1, min(i + 4, len(lines))), with lines numbered from 1
RECURSIVE LookAhead(_, _, _, _, _, _)
LookAhead(lines, j, last, current_window, results, clock) ==
    IF j > last THEN results
    ELSE LookAhead(lines, j + 1, last, current_window,
                   LookAtLine(lines[j], current_window, results, clock), clock)

\* the while loop of lines 92-134
RECURSIVE ParseLoop(_, _, _, _, _)
ParseLoop(lines, i, current_window, results, clock) ==
    IF i > Len(lines) THEN results
    ELSE IF IsNoise(lines[i]) THEN ParseLoop(lines, i + 1, current_window, results, clock)
    ELSE IF LooksLikeLabel(lines[i])
    THEN LET window == LabelWindow(lines[i], current_window)
             last == IF i + 3 < Len(lines) THEN i + 3 ELSE Len(lines)
         IN  ParseLoop(lines, i + 1, window,
                       LookAhead(lines, i + 1, last, window, results, clock), clock)
    ELSE ParseLoop(lines, i + 1, current_window, results, clock)

parse_usage_text(lines, clock) == ParseLoop(lines, 1, None, <<>>, clock)

----------------------------------------------------------------------------
(* Specification of check-quota.py                                          *)

\* clock readings: January 7th 22:00, 22:59 and 23:30, December 30th 23:30
ParseClocks ==
    { DateTime(0, 1, 7, 22, 0), DateTime(0, 1, 7, 22, 59), DateTime(0, 1, 7, 23, 30),
      DateTime(0, 12, 30, 23, 30) }

SessionResetLines ==
    { ResetsTimeLine(10, 59, "pm"), ResetsTimeLine(11, 45, "pm"),
      ResetsTimeLine(12, 30, "am"), ResetsTimeLine(2, 59, "am") }

WeekResetLines ==
    { ResetsDateLine(1, 8, 7, 59, "am"), ResetsDateLine(1, 9, 12, 0, "pm") }

BlockPercents == {9, 99}

\* the usage text of the sample of thingy.py: three blocks, then the notice
\* about extra usage
UsageText(ps, pw, pn, rs, rw, rn) ==
    << LabelLine("Current session"), BarLine(ps), rs,
       LabelLine("Current week (all models)"), BarLine(pw), rw,
       LabelLine("Current week (Sonnet only)"), BarLine(pn), rn,
       LabelLine("Extra usage"), NoiseLine, NoiseLine >>

ParseInit ==
    /\ resource_share_increments = <<>>
    /\ daily_resource_share = <<>>
    /\ now \in ParseClocks
    /\ quota_info = <<>>
    /\ claude_identities = <<>>
    /\ sessions = {}
    /\ \E ps \in BlockPercents, pw \in BlockPercents, pn \in {57},
          rs \in SessionResetLines, rw \in WeekResetLines, rn \in WeekResetLines :
          inp = [kind |-> "text", lines |-> UsageText(ps, pw, pn, rs, rw, rn)]
    /\ out = NoCall

\* main: the text is parsed and a non-empty result is stored
CheckQuota ==
    /\ out.kind = "none"
    /\ LET quota_data == parse_usage_text(inp.lines, now)
       IN  /\ out' = [kind |-> "parsed", ret |-> quota_data]
           /\ quota_info' = IF DOMAIN quota_data = {} THEN quota_info
                            ELSE store_quota(quota_info, quota_data, now)
    /\ UNCHANGED <<now, claude_identities, sessions, inp, resource_share_increments, daily_resource_share>>

\* parse_reset_time called on one "Resets" line of the text
ParseResetLine ==
    /\ out.kind = "none"
    /\ \E i \in 1..Len(inp.lines) :
          /\ inp.lines[i].kind = "resets"
          /\ out' = [kind |-> "reset_time", line |-> inp.lines[i],
                     ret |-> parse_reset_time(inp.lines[i], now)]
    /\ UNCHANGED <<now, quota_info, claude_identities, sessions, inp, resource_share_increments, daily_resource_share>>

ParseNext == CheckQuota \/ ParseResetLine

ParseSpec == ParseInit /\ [][ParseNext]_vars

----------------------------------------------------------------------------
(* Claims about check-quota.py, checked under ParseSpec *)

Parsed == out.kind = "parsed"

\* the lines of the block that starts at line i: its progress line and its
\* "Resets" line
BlockPercent(i) == inp.lines[i + 1].percent
BlockReset(i) == IsoReset(Val(parse_reset_time(inp.lines[i + 2], now)))

\* C23: for usage text made of consecutive three-line blocks for "Current
\* session", "Current week (all models)" and "Current week (Sonnet only)",
\* parse_usage_text returns for each window key the percent and the reset
\* time of that window's own block, never a value of a following block.
C23_ValuesFromOwnBlock ==
    Parsed
        => /\ {"session_5hour", "week_all", "week_sonnet",
               "session_5hour_reset", "week_reset"} \subseteq DOMAIN out.ret
           /\ out.ret.session_5hour = Some(BlockPercent(1))
           /\ out.ret.session_5hour_reset = BlockReset(1)
           /\ out.ret.week_all = Some(BlockPercent(4))
           /\ out.ret.week_sonnet = Some(BlockPercent(7))
           /\ out.ret.week_reset \in {BlockReset(4), BlockReset(7)}

\* C28: for a time-only reset line parse_reset_time returns an instant that
\* is not earlier than the clock reading at parse time, and that instant is
\* not "Reset time has passed" for calculate_window_multiplier at the same
\* clock reading.
C28_TimeOnlyResetNotPast ==
    (out.kind = "reset_time" /\ out.line.form = "time")
        => /\ ~IsNone(out.ret)
           /\ Val(out.ret) >= now
           /\ calculate_window_multiplier(
                  Some(10), IsoReset(Val(out.ret)), 30, "5hr session", now).reason.text
                  # "Reset time has passed"

----------------------------------------------------------------------------
(* resource_share_server.py: POST /resource-share/increment                 *)
(*                                                                          *)
(* inp maps a request to its payload and the handler's position, out maps   *)
(* it to the HTTP status answered (0: no answer yet). A handler's writes    *)
(* sit in its connection's transaction until commit; SQLite lets one        *)
(* connection write at a time.                                              *)

\* requests in flight
MaxRequests == 2
RequestIds == 1..MaxRequests

\* days the clock moves on
MaxDays == 1

\* date.today()
DayOf(clock) == clock \div (24 * 60)

\* request bodies: legacy token counts, a cost_delta, a mode that is neither
\* "autonomy" nor "collaboration", a missing count, an unregistered name
IncrementRequests ==
    { [claude_name |-> "Amber", mode |-> "autonomy",
       cost_delta |-> None, cache_read_increment |-> Some(5)],
      [claude_name |-> "Amber", mode |-> "collaboration",
       cost_delta |-> None, cache_read_increment |-> Some(7)],
      [claude_name |-> "Delta", mode |-> "chat",
       cost_delta |-> Some(<<7, 1000>>), cache_read_increment |-> None],
      [claude_name |-> Stranger, mode |-> "autonomy",
       cost_delta |-> None, cache_read_increment |-> None] }

Idle == [pc |-> "idle"]

\* lines 226-250: cache_read_increment of the request, or the exception
ComputeIncrement(data, identities) ==
    LET cost_multiplier ==
            IF data.claude_name \in DOMAIN identities
            THEN identities[data.claude_name].cost_multiplier ELSE Some(3)
    IN  IF ~IsNone(data.cost_delta)
        THEN IF IsNone(cost_multiplier) THEN TypeErrorRaised
             ELSE IF Val(cost_multiplier) = 0
             THEN [kind |-> "raised", error |-> "ZeroDivisionError"]
             ELSE [kind |-> "ok",
                   cache_read_increment |->
                       RFloor(RMul(RDiv(Val(data.cost_delta),
                                        RInt(Val(cost_multiplier))), <<1000, 1>>))]
        ELSE IF IsNone(cost_multiplier) THEN TypeErrorRaised
             ELSE [kind |-> "ok",
                   cache_read_increment |->
                       IF IsNone(data.cache_read_increment) THEN 0
                       ELSE Val(data.cache_read_increment)]

\* value of a column the INSERT of lines 273-289 does not name
DailyColumnDefault == 0

\* the conflicting row is overwritten with the new value
UpsertDaily_overwrite(table, claude_name, today, mode, cache_read_increment) ==
    LET key == <<claude_name, today>>
        row == IF mode = "autonomy"
               THEN [autonomous_tokens |-> cache_read_increment,
                     collaborative_tokens |->
                         IF key \in DOMAIN table THEN table[key].collaborative_tokens
                         ELSE DailyColumnDefault]
               ELSE [autonomous_tokens |->
                         IF key \in DOMAIN table THEN table[key].autonomous_tokens
                         ELSE DailyColumnDefault,
                     collaborative_tokens |-> cache_read_increment]
    IN  [k \in DOMAIN table \cup {key} |-> IF k = key THEN row ELSE table[k]]

\* lines 272-289: INSERT ... ON CONFLICT(claude_name, date) DO UPDATE
UpsertDaily(table, claude_name, today, mode, cache_read_increment) ==
    LET key == <<claude_name, today>>
        row == IF key \in DOMAIN table
               THEN IF mode = "autonomy"
                    THEN [table[key] EXCEPT
                             !.autonomous_tokens = @ + cache_read_increment]
                    ELSE [table[key] EXCEPT
                             !.collaborative_tokens = @ + cache_read_increment]
               ELSE IF mode = "autonomy"
                    THEN [autonomous_tokens |-> cache_read_increment,
                          collaborative_tokens |-> DailyColumnDefault]
                    ELSE [autonomous_tokens |-> DailyColumnDefault,
                          collaborative_tokens |-> cache_read_increment]
    IN  [k \in DOMAIN table \cup {key} |-> IF k = key THEN row ELSE table[k]]

\* the commit also records the increment as a usage session
CommitTransaction_logs_session(tables, pending) ==
    [sessions |->
         tables.sessions \cup
             {[id |-> 100 + Len(pending.resource_share_increments),
               claude_name |-> pending.resource_share_increments[
                                   Len(pending.resource_share_increments)].claude_name,
               start_time |-> pending.start_time,
               weighted_cost |-> MaxUsage]},
     claude_identities |-> tables.claude_identities,
     resource_share_increments |-> pending.resource_share_increments,
     daily_resource_share |-> pending.daily_resource_share]

\* line 291: conn.commit() makes the transaction's two writes visible
CommitTransaction(tables, pending) ==
    [sessions |-> tables.sessions,
     claude_identities |-> tables.claude_identities,
     resource_share_increments |-> pending.resource_share_increments,
     daily_resource_share |-> pending.daily_resource_share]

\* the connections that hold a write transaction
Writers == {r \in RequestIds : inp[r].pc = "written"}

ServerInit ==
    /\ now = 600
    /\ \E data \in {[session_5hour |-> Some(10), week_all |-> Some(50),
                     session_5hour_reset |-> IsoReset(now + 290),
                     week_reset |-> IsoReset(now + 5040)],
                    [session_5hour |-> Some(10),
                     session_5hour_reset |-> IsoReset(now + 290)]} :
          quota_info = store_quota(<<>>, data, now)
    /\ claude_identities =
           [c \in Claudes |->
               [model |-> "sonnet", cost_multiplier |-> Some(3),
                collaborative_pref |-> Some(50)]]
    /\ sessions =
           {[id |-> 1, claude_name |-> "Amber", start_time |-> 590, weighted_cost |-> 2],
            [id |-> 2, claude_name |-> "Delta", start_time |-> 580, weighted_cost |-> 1]}
    /\ inp = [r \in RequestIds |-> Idle]
    /\ out = [r \in RequestIds |-> 0]
    /\ resource_share_increments = <<>>
    /\ daily_resource_share = <<>>

\* a request arrives (requests are numbered in the order they arrive)
Post(r) ==
    /\ inp[r].pc = "idle"
    /\ \A q \in RequestIds : q < r => inp[q].pc # "idle"
    /\ \E data \in IncrementRequests :
          inp' = [inp EXCEPT ![r] = [pc |-> "received", data |-> data,
                                     cache_read_increment |-> 0,
                                     recommended_interval |-> 0,
                                     pending |-> <<>>]]
    /\ UNCHANGED <<now, quota_info, claude_identities, sessions, out,
                   resource_share_increments, daily_resource_share>>

\* lines 223-258; an exception goes to lines 311-313
Compute(r) ==
    /\ inp[r].pc = "received"
    /\ LET computed == ComputeIncrement(inp[r].data, claude_identities)
           recommendation ==
               calculate_recommended_interval(
                   inp[r].data.claude_name, Some(DEFAULT_INTERVAL), now)
       IN  IF computed.kind = "raised" \/ recommendation.kind = "raised"
           THEN /\ inp' = [inp EXCEPT ![r].pc = "done"]
                /\ out' = [out EXCEPT ![r] = 500]
           ELSE /\ inp' = [inp EXCEPT
                              ![r].pc = "computed",
                              ![r].cache_read_increment = computed.cache_read_increment,
                              ![r].recommended_interval =
                                  recommendation.recommended_interval]
                /\ out' = out
    /\ UNCHANGED <<now, quota_info, claude_identities, sessions,
                   resource_share_increments, daily_resource_share>>

\* lines 261-289: the INSERT opens the write transaction, the upsert of the
\* daily totals follows in the same transaction
InsertAndUpsert(r) ==
    /\ inp[r].pc = "computed"
    /\ Writers = {}
    /\ inp' = [inp EXCEPT
                  ![r].pc = "written",
                  ![r].pending =
                      [resource_share_increments |->
                           Append(resource_share_increments,
                                  [request |-> r,
                                   claude_name |-> inp[r].data.claude_name,
                                   mode |-> inp[r].data.mode,
                                   cache_read_increment |-> inp[r].cache_read_increment,
                                   recommended_interval |-> inp[r].recommended_interval,
                                   date |-> DayOf(now)]),
                       daily_resource_share |->
                           UpsertDaily(daily_resource_share,
                                       inp[r].data.claude_name, DayOf(now),
                                       inp[r].data.mode, inp[r].cache_read_increment),
                       start_time |-> now]]
    /\ UNCHANGED <<now, quota_info, claude_identities, sessions, out,
                   resource_share_increments, daily_resource_share>>

\* another connection holds the write lock: "database is locked", lines 311-313
Busy(r) ==
    /\ inp[r].pc = "computed"
    /\ Writers # {}
    /\ inp' = [inp EXCEPT ![r].pc = "done"]
    /\ out' = [out EXCEPT ![r] = 500]
    /\ UNCHANGED <<now, quota_info, claude_identities, sessions,
                   resource_share_increments, daily_resource_share>>

\* a statement of the transaction raises: the connection is dropped without a
\* commit and its writes are rolled back, lines 311-313
Abort(r) ==
    /\ inp[r].pc = "written"
    /\ inp' = [inp EXCEPT ![r].pc = "done", ![r].pending = <<>>]
    /\ out' = [out EXCEPT ![r] = 500]
    /\ UNCHANGED <<now, quota_info, claude_identities, sessions,
                   resource_share_increments, daily_resource_share>>

\* lines 291-292
Commit(r) ==
    /\ inp[r].pc = "written"
    /\ LET tables == CommitTransaction(
                         [sessions |-> sessions,
                          claude_identities |-> claude_identities,
                          resource_share_increments |-> resource_share_increments,
                          daily_resource_share |-> daily_resource_share],
                         inp[r].pending)
       IN  /\ sessions' = tables.sessions
           /\ claude_identities' = tables.claude_identities
           /\ resource_share_increments' = tables.resource_share_increments
           /\ daily_resource_share' = tables.daily_resource_share
    /\ inp' = [inp EXCEPT ![r].pc = "committed", ![r].pending = <<>>]
    /\ UNCHANGED <<now, quota_info, out>>

\* lines 294-309: the log line is written and the success body returned
LogAndReturn(r) ==
    /\ inp[r].pc = "committed"
    /\ inp' = [inp EXCEPT ![r].pc = "done"]
    /\ out' = [out EXCEPT ![r] = 200]
    /\ UNCHANGED <<now, quota_info, claude_identities, sessions,
                   resource_share_increments, daily_resource_share>>

\* lines 294-298 and 39-43: open() or write() of the log file raises after the
\* commit; lines 311-313 answer 500
LogRaises(r) ==
    /\ inp[r].pc = "committed"
    /\ inp' = [inp EXCEPT ![r].pc = "done"]
    /\ out' = [out EXCEPT ![r] = 500]
    /\ UNCHANGED <<now, quota_info, claude_identities, sessions,
                   resource_share_increments, daily_resource_share>>

\* midnight passes between two runs of the handler
NextDay ==
    /\ DayOf(now) < MaxDays
    /\ \A r \in RequestIds : inp[r].pc \in {"idle", "done"}
    /\ now' = now + 24 * 60
    /\ UNCHANGED <<quota_info, claude_identities, sessions, inp, out,
                   resource_share_increments, daily_resource_share>>

ServerNext ==
    \/ \E r \in RequestIds :
          \/ Post(r) \/ Compute(r) \/ InsertAndUpsert(r) \/ Busy(r)
          \/ Abort(r) \/ Commit(r) \/ LogAndReturn(r) \/ LogRaises(r)
    \/ NextDay

ServerSpec == ServerInit /\ [][ServerNext]_vars

----------------------------------------------------------------------------
(* aggregate_daily.py: aggregate_previous_day *)

\* SUM(cache_read_increment) over the rows at the positions in rows
RECURSIVE SumIncrements(_, _)
SumIncrements(table, rows) ==
    IF rows = {} THEN 0
    ELSE LET i == CHOOSE x \in rows : TRUE
         IN  table[i].cache_read_increment + SumIncrements(table, rows \ {i})

\* WHERE claude_name = ? AND DATE(timestamp) = ? AND mode = ?
RowsWhere(table, claude_name, date, mode) ==
    {i \in 1..Len(table) :
        /\ table[i].claude_name = claude_name
        /\ table[i].date = date
        /\ table[i].mode = mode}

\* lines 19-74: the daily rows of yesterday are replaced by the recomputed sums
aggregate_previous_day(increments, daily, clock) ==
    LET yesterday == DayOf(clock) - 1
        active_claudes ==
            {increments[i].claude_name :
                i \in {j \in 1..Len(increments) : increments[j].date = yesterday}}
        keys == {<<c, yesterday>> : c \in active_claudes}
    IN  [k \in DOMAIN daily \cup keys |->
            IF k \in keys
            THEN [autonomous_tokens |->
                      SumIncrements(increments,
                                    RowsWhere(increments, k[1], yesterday, "autonomy")),
                  collaborative_tokens |->
                      SumIncrements(increments,
                                    RowsWhere(increments, k[1], yesterday, "collaboration"))]
            ELSE daily[k]]

\* the midnight job runs while no write transaction is open
AggregatePreviousDay ==
    /\ Writers = {}
    /\ daily_resource_share' =
           aggregate_previous_day(resource_share_increments, daily_resource_share, now)
    /\ UNCHANGED <<now, quota_info, claude_identities, sessions, inp, out,
                   resource_share_increments>>

AggNext == ServerNext \/ AggregatePreviousDay

AggSpec == ServerInit /\ [][AggNext]_vars

----------------------------------------------------------------------------
(* Claims about the increment endpoint, checked under ServerSpec *)

\* the increment rows of one agent and day, with mode "autonomy" and with any
\* other mode
AutonomyRows(c, d) ==
    {i \in 1..Len(resource_share_increments) :
        /\ resource_share_increments[i].claude_name = c
        /\ resource_share_increments[i].date = d
        /\ resource_share_increments[i].mode = "autonomy"}
OtherRows(c, d) ==
    {i \in 1..Len(resource_share_increments) :
        /\ resource_share_increments[i].claude_name = c
        /\ resource_share_increments[i].date = d
        /\ resource_share_increments[i].mode # "autonomy"}
RowsOfRequest(r) ==
    {i \in 1..Len(resource_share_increments) : resource_share_increments[i].request = r}

C26_FailedRequestWroteNothing ==
    \A r \in RequestIds : out[r] = 500 => RowsOfRequest(r) = {}

\* the fairness multiplier of an agent over given tables at a clock reading
FairnessOf(c, rows, identities, clock) ==
    calculate_fairness_multiplier(
        c, get_recent_weighted_usage(rows, identities, 24, clock)).mult

\* C27: a step of the increment endpoint leaves autonomous_time_sessions and
\* claude_identities as they were, so every agent's fairness multiplier at
\* the same clock reading is the same after the step as before it.
C27_IncrementsKeepFairness ==
    [][(now' = now)
          => /\ sessions' = sessions
             /\ claude_identities' = claude_identities
             /\ \A c \in AllNames :
                   FairnessOf(c, sessions', claude_identities', now')
                       = FairnessOf(c, sessions, claude_identities, now)]_vars

\* C27 witness: two increments of the heavier agent are committed and its
\* fairness multiplier is still the 0.5 its session history gives.
C27_Witness ==
    /\ Len(resource_share_increments) = 2
    /\ \A i \in 1..2 : resource_share_increments[i].claude_name = "Amber"
    /\ DayOf(now) = 0
    /\ FairnessOf("Amber", sessions, claude_identities, now) = <<1, 2>>
    /\ FairnessOf("Delta", sessions, claude_identities, now) = <<1, 1>>

----------------------------------------------------------------------------
(* Claim about aggregate_previous_day, checked under AggSpec *)

\* C25: for a day whose increments were all recorded through the endpoint,
\* whatever their mode strings, aggregate_previous_day leaves every daily row's
\* autonomous_tokens and collaborative_tokens equal to the running totals the
\* endpoint accumulated.
C25_AggregateKeepsTotals ==
    [][AggregatePreviousDay
          => \A k \in DOMAIN daily_resource_share' :
                /\ k \in DOMAIN daily_resource_share
                /\ daily_resource_share'[k].autonomous_tokens
                       = daily_resource_share[k].autonomous_tokens
                /\ daily_resource_share'[k].collaborative_tokens
                       = daily_resource_share[k].collaborative_tokens]_vars

====
